---------------------------- MODULE Spec2Model ----------------------------
(***************************************************************************)
(* A model of the schedule store of AnimeWebAppApi (src/api_db.py) and of  *)
(* the route that serves it (src/api_main.py).                             *)
(*                                                                         *)
(* The MongoDB collection db.animes is a sequence of documents in natural  *)
(* (insertion) order.  A document carries the fields id, nextEpisode,      *)
(* nextAiringAt, updatedAt and status; the display fields title,           *)
(* coverImage and siteUrl are copied through by the code and are left out. *)
(* A missing, None or empty status is NoStatus.                            *)
(*                                                                         *)
(* The AniList lookup is the environment: one outcome per batch request    *)
(* ("ok": HTTP 200 with a media list, "http": another status code, "net":  *)
(* requests.RequestException) and, for the "ok" batches, the status        *)
(* AniList holds for each identifier asked about (NoStatus: no match).     *)
(* The store may fail any call made to it.                                 *)
(*                                                                         *)
(* unique_index tells whether create_indexes, run once at startup, has     *)
(* created the unique index on id; requests holds the handlers in progress *)
(* when requests are served concurrently.                                  *)
(***************************************************************************)
EXTENDS Integers, Sequences, FiniteSets, TLC

VARIABLES store, now, last, unique_index, requests

vars == <<store, now, last, unique_index, requests>>

-----------------------------------------------------------------------------
(* Bounds of the model.                                                    *)

MaxId == 2
MaxTick == 2
MaxEntries == 2
StartDay == 20758
MaxBatchIds == 101

(* Program constants.                                                      *)

fetch_batch_size == 50
cleanup_batch_size == 50

-----------------------------------------------------------------------------
(* Values.                                                                 *)

NoStatus == "None"
FinishedOnly == {"FINISHED"}
FINISHED_STATUSES == {"FINISHED", "CANCELLED"}
AIRING_STATUSES == {"RELEASING", "NOT_YET_RELEASED"}
Statuses == AIRING_STATUSES \cup FINISHED_STATUSES
Days == <<"Monday", "Tuesday", "Wednesday", "Thursday", "Friday", "Saturday", "Sunday">>
DaySet == {Days[i] : i \in 1..7}

(* The clock: StartDay 12:00 UTC is 23:00 in Melbourne, and time moves in  *)
(* hours, so the modelled window crosses local midnight after one hour.    *)
T0 == StartDay * 86400 + 12 * 3600
Time(k) == T0 + k * 3600
Times == {Time(k) : k \in 0..MaxTick}

Min(a, b) == IF a < b THEN a ELSE b
Range(s) == {s[i] : i \in DOMAIN s}
CeilDiv(n, d) == (n + d - 1) \div d

-----------------------------------------------------------------------------
(* parse_airing_time.  A raw value is [k, v, h]: k = "int" an integer v;   *)
(* "numstr" a string holding the decimal literal v; "iso" an ISO-8601      *)
(* string for day v since 1970-01-01, h seconds into the day, UTC ("Z");   *)
(* "text" any other string; "none" None; "other" any other type.           *)
(* The result is [ok, t]: ok = FALSE is the code's None.                   *)

IntVal(t) == [k |-> "int", v |-> t, h |-> 0]
NumStr(t) == [k |-> "numstr", v |-> t, h |-> 0]
IsoStr(t) == [k |-> "iso", v |-> t \div 86400, h |-> t % 86400]
NoneVal == [k |-> "none", v |-> 0, h |-> 0]
TextVal == [k |-> "text", v |-> 0, h |-> 0]

parse_airing_time(airing_time) ==
    CASE airing_time.k = "none" -> [ok |-> FALSE, t |-> 0]
      [] airing_time.k = "int" -> [ok |-> TRUE, t |-> airing_time.v]
      [] airing_time.k = "numstr" -> [ok |-> TRUE, t |-> airing_time.v]
      [] airing_time.k = "iso" -> [ok |-> TRUE, t |-> airing_time.v * 86400 + airing_time.h]
      [] OTHER -> [ok |-> FALSE, t |-> 0]

(* int(anime.get("id")): TypeError or ValueError skips the entry.          *)
parse_id(id) ==
    CASE id.k = "int" -> [ok |-> TRUE, v |-> id.v]
      [] id.k = "numstr" -> [ok |-> TRUE, v |-> id.v]
      [] OTHER -> [ok |-> FALSE, v |-> 0]

-----------------------------------------------------------------------------
(* The weekday of an epoch time in Australia/Melbourne.  The offset is     *)
(* that of the daylight-saving period 2026-10-03T16:00Z..2027-04-03T16:00Z *)
(* (+11:00) and of standard time around it (+10:00).                       *)

UtcOffsetNone(t) == 0

UtcOffset(t) == IF t >= 1791043200 /\ t < 1806768000 THEN 11 * 3600 ELSE 10 * 3600

(* 1970-01-01 was a Thursday.                                              *)
Weekday(t) == Days[(((t + UtcOffset(t)) \div 86400 + 3) % 7) + 1]

-----------------------------------------------------------------------------
(* The collection.                                                         *)

Doc(id, ep, at, upd, st) ==
    [id |-> id, nextEpisode |-> ep, nextAiringAt |-> at, updatedAt |-> upd, status |-> st]

IdsOf(coll) == {coll[i].id : i \in DOMAIN coll}
DocsOf(coll, id) == {i \in DOMAIN coll : coll[i].id = id}
FirstIndex(coll, id) == CHOOSE i \in DocsOf(coll, id) : \A j \in DocsOf(coll, id) : i <= j
LastIndex(coll, id) == CHOOSE i \in DocsOf(coll, id) : \A j \in DocsOf(coll, id) : i >= j

(* db.animes.distinct("id"), in order of first occurrence.                 *)
Distinct(coll) ==
    LET firsts == SelectSeq([i \in DOMAIN coll |-> i],
                            LAMBDA i : \A j \in 1..(i - 1) : coll[j].id # coll[i].id)
    IN [k \in DOMAIN firsts |-> coll[firsts[k]].id]

(* update_one({"id": id}, {"$set": update_doc}, upsert=True): the first    *)
(* matching document gets the fields of update_doc (status only when the   *)
(* update carries one); with no match the document is inserted.            *)
SetFieldsKeepEarlier(old, upd) ==
    [old EXCEPT !.nextEpisode = IF upd.nextAiringAt < old.nextAiringAt THEN upd.nextEpisode ELSE @,
                !.nextAiringAt = Min(@, upd.nextAiringAt),
                !.updatedAt = upd.updatedAt,
                !.status = IF upd.status # NoStatus THEN upd.status ELSE @]

SetFields(old, upd) ==
    [old EXCEPT !.nextEpisode = upd.nextEpisode,
                !.nextAiringAt = upd.nextAiringAt,
                !.updatedAt = upd.updatedAt,
                !.status = IF upd.status # NoStatus THEN upd.status ELSE @]

update_one(coll, upd) ==
    IF DocsOf(coll, upd.id) # {}
    THEN [coll EXCEPT ![FirstIndex(coll, upd.id)] = SetFields(@, upd)]
    ELSE Append(coll, upd)

(* delete_many({"id": {"$in": ids}}) and delete_one({"id": id}).           *)
delete_many(coll, ids) == SelectSeq(coll, LAMBDA d : d.id \notin ids)

delete_one(coll, id) ==
    IF DocsOf(coll, id) = {} THEN coll
    ELSE LET k == FirstIndex(coll, id)
         IN SubSeq(coll, 1, k - 1) \o SubSeq(coll, k + 1, Len(coll))


-----------------------------------------------------------------------------
(* The AniList lookup.  oc[b] is the outcome of the b-th batch request and *)
(* resp[id] the status AniList holds for id (NoStatus: no match).          *)

Outcomes == {"ok", "http", "net"}

NumBatches(ids, size) == CeilDiv(Len(ids), size)
BatchIds(ids, b, size) == SubSeq(ids, (b - 1) * size + 1, Min(b * size, Len(ids)))

(* status_map[anime_id] = status for the pairs of one media list.          *)
Merge(f, g) == [x \in DOMAIN f \cup DOMAIN g |-> IF x \in DOMAIN g THEN g[x] ELSE f[x]]
MediaStatuses(batch_ids, resp) ==
    [x \in {y \in Range(batch_ids) : resp[y] # NoStatus} |-> resp[x]]

EmptyMap == [x \in {} |-> NoStatus]

(* One pass of the loop body of fetch_status_from_anilist: the request,    *)
(* the status-code test and the except clause.                             *)
FetchBatchRaises(acc, batch_ids, outcome, resp) ==
    CASE outcome = "ok" ->
           [acc EXCEPT !.calls = @ + 1, !.map = Merge(@, MediaStatuses(batch_ids, resp))]
      [] outcome = "http" -> [acc EXCEPT !.calls = @ + 1]
      [] OTHER -> [acc EXCEPT !.calls = @ + 1, !.raised = TRUE]

FetchBatch(acc, batch_ids, outcome, resp) ==
    CASE outcome = "ok" ->
           [acc EXCEPT !.calls = @ + 1, !.map = Merge(@, MediaStatuses(batch_ids, resp))]
      [] outcome = "http" -> [acc EXCEPT !.calls = @ + 1]
      [] OTHER -> [acc EXCEPT !.calls = @ + 1]

RECURSIVE FetchLoop(_, _, _, _, _)
FetchLoop(anime_ids, b, oc, resp, acc) ==
    IF acc.raised \/ b > NumBatches(anime_ids, fetch_batch_size) THEN acc
    ELSE FetchLoop(anime_ids, b + 1, oc, resp,
                   FetchBatch(acc, BatchIds(anime_ids, b, fetch_batch_size), oc[b], resp))

fetch_status_from_anilist(anime_ids, oc, resp) ==
    IF anime_ids = <<>> THEN [map |-> EmptyMap, calls |-> 0, raised |-> FALSE]
    ELSE FetchLoop(anime_ids, 1, oc, resp, [map |-> EmptyMap, calls |-> 0, raised |-> FALSE])

-----------------------------------------------------------------------------
(* save_schedule_data.  data is the sequence of the payload's values, each *)
(* [isList, items]; an entry is [id, airing_time, episode, status].        *)

Flatten(data) ==
    LET F[i \in 0..Len(data)] ==
            IF i = 0 THEN <<>>
            ELSE IF data[i].isList THEN F[i - 1] \o data[i].items ELSE F[i - 1]
    IN F[Len(data)]

MapIndex(amap, id) == CHOOSE i \in DOMAIN amap : amap[i].id = id

Info(anime_id, anime, next_at) ==
    [id |-> anime_id, anime |-> anime, nextAiringAt |-> next_at, nextEpisode |-> anime.episode]

CollapseEntryLastWins(amap, anime, t) ==
    LET pid == parse_id(anime.id)
        next_at == parse_airing_time(anime.airing_time)
    IN IF ~pid.ok THEN amap
       ELSE IF ~next_at.ok \/ next_at.t < t THEN amap
       ELSE IF \A i \in DOMAIN amap : amap[i].id # pid.v
            THEN Append(amap, Info(pid.v, anime, next_at.t))
       ELSE [amap EXCEPT ![MapIndex(amap, pid.v)] = Info(pid.v, anime, next_at.t)]

(* One entry of the collapse loop; anime_map is kept in insertion order,   *)
(* as the dict is.                                                         *)
CollapseEntry(amap, anime, t) ==
    LET pid == parse_id(anime.id)
        next_at == parse_airing_time(anime.airing_time)
    IN IF ~pid.ok THEN amap
       ELSE IF ~next_at.ok \/ next_at.t < t THEN amap
       ELSE IF \A i \in DOMAIN amap : amap[i].id # pid.v
            THEN Append(amap, Info(pid.v, anime, next_at.t))
       ELSE IF next_at.t < amap[MapIndex(amap, pid.v)].nextAiringAt
            THEN [amap EXCEPT ![MapIndex(amap, pid.v)] = Info(pid.v, anime, next_at.t)]
       ELSE amap

RECURSIVE Collapse(_, _, _)
Collapse(animes, t, amap) ==
    IF animes = <<>> THEN amap
    ELSE Collapse(Tail(animes), t, CollapseEntry(amap, Head(animes), t))

(* existing_status: the dict built from find({"id": {"$in": ids}}).        *)
existing_status(coll, id) ==
    IF DocsOf(coll, id) = {} THEN NoStatus ELSE coll[LastIndex(coll, id)].status

MapGet(m, id) == IF id \in DOMAIN m THEN m[id] ELSE NoStatus

ResolveStatusInlineFirst(existing, fetched, inline) ==
    IF existing # NoStatus THEN existing
    ELSE IF inline # NoStatus THEN inline
    ELSE fetched

(* existing_status.get(id) or status_map.get(id) or anime.get("status")    *)
ResolveStatus(existing, fetched, inline) ==
    IF existing # NoStatus THEN existing
    ELSE IF fetched # NoStatus THEN fetched
    ELSE inline

update_doc(info, existing, status_map, t) ==
    Doc(info.id, info.nextEpisode, info.nextAiringAt, t,
        ResolveStatus(existing[info.id], MapGet(status_map, info.id), info.anime.status))

(* The upsert loop.  fault = k > 0: the store fails the k-th update_one;   *)
(* the exception leaves save_schedule_data.                                *)
RECURSIVE UpsertLoop(_, _, _, _, _, _, _)
UpsertLoop(coll, amap, k, existing, status_map, t, fault) ==
    IF k > Len(amap) THEN [store |-> coll, raised |-> FALSE]
    ELSE IF fault = k THEN [store |-> coll, raised |-> TRUE]
    ELSE UpsertLoop(update_one(coll, update_doc(amap[k], existing, status_map, t)),
                    amap, k + 1, existing, status_map, t, fault)

(* fault = -1: the store fails the find of step 2; 0: no store failure.    *)
save_schedule_data(coll, data, t, oc, resp, fault) ==
    LET anime_map == Collapse(Flatten(data), t, <<>>)
        ids == [i \in DOMAIN anime_map |-> anime_map[i].id]
        existing == [id \in Range(ids) |-> existing_status(coll, id)]
        missing_ids == SelectSeq(ids, LAMBDA i : existing[i] = NoStatus)
        fetched == fetch_status_from_anilist(missing_ids, oc, resp)
        written == UpsertLoop(coll, anime_map, 1, existing, fetched.map, t, fault)
    IN IF anime_map = <<>>
       THEN [store |-> coll, raised |-> FALSE, ids |-> ids, asked |-> <<>>, calls |-> 0,
             map |-> EmptyMap]
       ELSE IF fault = -1
       THEN [store |-> coll, raised |-> TRUE, ids |-> ids, asked |-> <<>>, calls |-> 0,
             map |-> EmptyMap]
       ELSE [store |-> written.store, raised |-> written.raised, ids |-> ids,
             asked |-> missing_ids, calls |-> fetched.calls, map |-> fetched.map]

-----------------------------------------------------------------------------
(* cleanup_finished_anime.  fault = "distinct": the store fails            *)
(* distinct("id"); "delete": it fails delete_many; "none": no failure.     *)
(* Either failure is caught by the outer except, which returns 0.          *)

SweepFaults == {"none", "distinct", "delete"}

FinishedIn(batch_ids, resp) == SelectSeq(batch_ids, LAMBDA i : resp[i] \in FINISHED_STATUSES)

CleanupBatch(acc, batch_ids, outcome, resp) ==
    CASE outcome = "ok" ->
           [acc EXCEPT !.calls = @ + 1, !.finished = @ \o FinishedIn(batch_ids, resp)]
      [] outcome = "http" -> [acc EXCEPT !.calls = @ + 1]
      [] OTHER -> [acc EXCEPT !.calls = @ + 1]

RECURSIVE CleanupLoop(_, _, _, _, _)
CleanupLoop(ids, b, oc, resp, acc) ==
    IF b > NumBatches(ids, cleanup_batch_size) THEN acc
    ELSE CleanupLoop(ids, b + 1, oc, resp,
                     CleanupBatch(acc, BatchIds(ids, b, cleanup_batch_size), oc[b], resp))

(* The lookups of the sweep: the requests made and finished_anime_ids.      *)
FinishedLookups(unique_anime_ids, oc, resp) ==
    CleanupLoop(unique_anime_ids, 1, oc, resp, [calls |-> 0, finished |-> <<>>])

cleanup_finished_anime(coll, oc, resp, fault) ==
    LET unique_anime_ids == Distinct(coll)
        looked == FinishedLookups(unique_anime_ids, oc, resp)
        kept == delete_many(coll, Range(looked.finished))
    IN IF fault = "distinct" \/ unique_anime_ids = <<>>
       THEN [store |-> coll, ret |-> 0, calls |-> 0, deleting |-> FALSE]
       ELSE IF looked.finished = <<>>
       THEN [store |-> coll, ret |-> 0, calls |-> looked.calls, deleting |-> FALSE]
       ELSE IF fault = "delete"
       THEN [store |-> coll, ret |-> 0, calls |-> looked.calls, deleting |-> TRUE]
       ELSE [store |-> kept, ret |-> Len(coll) - Len(kept), calls |-> looked.calls,
             deleting |-> TRUE]

-----------------------------------------------------------------------------
(* load_schedule_data and the route load_schedule.                         *)

EmptySchedule == [d \in DaySet |-> <<>>]

(* The display object; its formatted 'datetime' text is left out.          *)
AnimeObj(anime) ==
    [id |-> anime.id, episode |-> anime.nextEpisode, airing_time |-> anime.nextAiringAt]

(* list.sort(key=airing_time): a stable sort.                              *)
InsertByAiring(sorted, x) ==
    LET before == {i \in DOMAIN sorted : sorted[i].airing_time <= x.airing_time}
        k == Cardinality(before)
    IN SubSeq(sorted, 1, k) \o <<x>> \o SubSeq(sorted, k + 1, Len(sorted))

RECURSIVE SortByAiring(_, _)
SortByAiring(objs, sorted) ==
    IF objs = <<>> THEN sorted
    ELSE SortByAiring(Tail(objs), InsertByAiring(sorted, Head(objs)))

(* find({"status": {"$in": [...]}, "nextAiringAt": {"$exists": True,       *)
(* "$gte": current_timestamp}}), in natural order.                         *)
FindAiringAnyTime(coll, t) ==
    SelectSeq(coll, LAMBDA d : d.status \in AIRING_STATUSES)

FindAiring(coll, t) ==
    SelectSeq(coll, LAMBDA d : d.status \in AIRING_STATUSES /\ d.nextAiringAt >= t)

Bucket(animes, day) ==
    LET mine == SelectSeq(animes, LAMBDA d : Weekday(d.nextAiringAt) = day)
    IN SortByAiring([i \in DOMAIN mine |-> AnimeObj(mine[i])], <<>>)

(* The try block of load_schedule_data: find_fault is a store failure of   *)
(* the find, caught by the except clause, which leaves the empty buckets.  *)
LoadTryPropagates(coll, t, find_fault) ==
    IF find_fault THEN [raised |-> TRUE, sched |-> <<>>]
    ELSE [raised |-> FALSE, sched |-> [d \in DaySet |-> Bucket(FindAiring(coll, t), d)]]

LoadTry(coll, t, find_fault) ==
    IF find_fault THEN [raised |-> FALSE, sched |-> EmptySchedule]
    ELSE [raised |-> FALSE, sched |-> [d \in DaySet |-> Bucket(FindAiring(coll, t), d)]]

load_schedule_data(coll, t, oc, resp, sweep_fault, find_fault) ==
    LET swept == cleanup_finished_anime(coll, oc, resp, sweep_fault)
        loaded == LoadTry(swept.store, t, find_fault)
    IN [store |-> swept.store, raised |-> loaded.raised, sched |-> loaded.sched,
        calls |-> swept.calls, deleting |-> swept.deleting]

(* The route: an exception of load_schedule_data is not caught here; a     *)
(* value that is empty or no dict is replaced by the empty buckets.        *)
load_schedule(loaded) ==
    IF loaded.raised THEN loaded
    ELSE IF DOMAIN loaded.sched = {} THEN [loaded EXCEPT !.sched = EmptySchedule]
    ELSE loaded

-----------------------------------------------------------------------------
(* remove_anime: delete_one, any store failure caught and reported as 0.   *)

remove_anime(coll, anime_id, fault) ==
    IF fault THEN [store |-> coll, ret |-> 0]
    ELSE [store |-> delete_one(coll, anime_id),
          ret |-> Len(coll) - Len(delete_one(coll, anime_id))]

-----------------------------------------------------------------------------
(* The server, one request at a time.  A handler runs to completion in one *)
(* step, which leaves in `last` the call (its clock reading, inputs and    *)
(* the environment's answers) and its result; Respond hands the result to  *)
(* the caller and the server is idle again.                                *)

Ids == 1..MaxId

(* No request is in progress besides the one the step serves, and the      *)
(* index is as it was.                                                     *)
NoRequests == <<>>
OneAtATime == requests = NoRequests /\ UNCHANGED <<unique_index, requests>>

Idle ==
    [op |-> "idle", now |-> 0, pre |-> <<>>, data |-> <<>>, oc |-> <<>>, resp |-> <<>>,
     fault |-> 0, sweep_fault |-> "none", read_fault |-> FALSE, arg |-> 0,
     raised |-> FALSE, ret |-> 0, calls |-> 0, asked |-> <<>>, map |-> <<>>, sched |-> <<>>]

(* int(time.time()): the clock has not moved, or has moved on one hour.    *)
ClockReads == {t \in Times : t = now \/ t = now + 3600}

(* What AniList may answer.  An answer that no request reads (the lookup   *)
(* was not called, or its one batch failed) is fixed to NoResp.            *)
RespValues == {NoStatus, "RELEASING", "FINISHED"}
NoResp == [i \in Ids |-> NoStatus]
OneBatch == {<<o>> : o \in Outcomes}
Answers == {a \in [oc : OneBatch, resp : [Ids -> RespValues]] :
               a.oc[1] # "ok" => a.resp = NoResp}
Unread(a, calls) == calls = 0 => (a.oc = <<"http">> /\ a.resp = NoResp)
(* A failure of delete_many needs a delete_many call.                      *)
Undeleted(f, deleting) == f = "delete" => deleting

(* The payloads of Spec: one day list of at most one entry; the episode    *)
(* number follows the airing time.                                         *)
Entry(id, airing_time, episode, status) ==
    [id |-> id, airing_time |-> airing_time, episode |-> episode, status |-> status]
DayList(items) == [isList |-> TRUE, items |-> items]
EpisodeAt(t) == (t - T0) \div 3600 + 1
InlineValues == {NoStatus, "NOT_YET_RELEASED"}
SpecEntries ==
    {Entry(IntVal(i), IntVal(t), EpisodeAt(t), st) : i \in Ids, t \in Times, st \in InlineValues}
SpecPayloads == {<<DayList(<<>>)>>} \cup {<<DayList(<<e>>)>> : e \in SpecEntries}

(* create_indexes has run: a store that is reachable at startup and holds  *)
(* nothing yet creates the index.                                          *)
Init ==
    /\ store = <<>>
    /\ now = T0
    /\ last = Idle
    /\ unique_index = TRUE
    /\ requests = NoRequests

SaveSchedule ==
    /\ OneAtATime
    /\ last.op = "idle"
    /\ \E data \in SpecPayloads, t \in ClockReads, a \in Answers :
          LET r == save_schedule_data(store, data, t, a.oc, a.resp, 0)
          IN /\ Unread(a, r.calls)
             /\ store' = r.store
             /\ now' = t
             /\ last' = [Idle EXCEPT !.op = "save", !.now = t, !.raised = r.raised]

CleanupFinished ==
    /\ OneAtATime
    /\ last.op = "idle"
    /\ \E a \in Answers, f \in SweepFaults :
          LET r == cleanup_finished_anime(store, a.oc, a.resp, f)
          IN /\ Unread(a, r.calls)
             /\ Undeleted(f, r.deleting)
             /\ store' = r.store
             /\ now' = now
             /\ last' = [Idle EXCEPT !.op = "sweep", !.pre = store, !.oc = a.oc, !.resp = a.resp,
                                     !.sweep_fault = f, !.ret = r.ret, !.calls = r.calls]

LoadSchedule ==
    /\ OneAtATime
    /\ last.op = "idle"
    /\ \E t \in ClockReads, a \in Answers, f \in SweepFaults, rf \in BOOLEAN :
          LET r == load_schedule(load_schedule_data(store, t, a.oc, a.resp, f, rf))
          IN /\ Unread(a, r.calls)
             /\ Undeleted(f, r.deleting)
             /\ store' = r.store
             /\ now' = t
             /\ last' = [Idle EXCEPT !.op = "load", !.now = t, !.pre = store, !.oc = a.oc,
                                     !.resp = a.resp, !.sweep_fault = f, !.read_fault = rf,
                                     !.raised = r.raised, !.calls = r.calls, !.sched = r.sched]

RemoveAnime ==
    /\ OneAtATime
    /\ last.op = "idle"
    /\ \E id \in Ids, f \in BOOLEAN :
          LET r == remove_anime(store, id, f)
          IN /\ store' = r.store
             /\ now' = now
             /\ last' = [Idle EXCEPT !.op = "remove", !.pre = store, !.arg = id,
                                     !.read_fault = f, !.ret = r.ret]

Respond ==
    /\ OneAtATime
    /\ last.op # "idle"
    /\ last' = Idle
    /\ UNCHANGED <<store, now>>

Next == SaveSchedule \/ CleanupFinished \/ LoadSchedule \/ RemoveAnime \/ Respond

Spec == Init /\ [][Next]_vars

-----------------------------------------------------------------------------
(* Properties of the sequential server (Spec).                             *)

InSomeBucket(sched, id) ==
    \E d \in DOMAIN sched : \E k \in DOMAIN sched[d] : sched[d][k].id = id

(* C2, as claimed: once a sweep (by itself or as the first step of a load) *)
(* has completed without a store failure, no record of the store has the   *)
(* stored status FINISHED or CANCELLED.                                    *)
C2_NoTerminalStatusAfterSweep ==
    (last.op \in {"sweep", "load"} /\ last.sweep_fault = "none")
        => \A i \in DOMAIN store : store[i].status \notin FINISHED_STATUSES

(* C6: load_schedule_data, and the route above it, return a mapping with   *)
(* exactly the keys Monday..Sunday, each a list, and raise nothing,        *)
(* whatever the store holds and whichever of the sweep, the lookup and the *)
(* store read fails.                                                       *)
C6_SevenBucketsAlways ==
    last.op = "load"
        => /\ ~last.raised
           /\ DOMAIN last.sched = DaySet
           /\ \A d \in DaySet : DOMAIN last.sched[d] = 1..Len(last.sched[d])

C6_Witness ==
    /\ last.op = "load"
    /\ last.read_fault
    /\ last.oc = <<"net">>
    /\ \E i \in DOMAIN store : store[i].status = "RELEASING" /\ store[i].nextAiringAt >= last.now

(* C7: every display object of a load is the object of a stored record     *)
(* whose status is RELEASING or NOT_YET_RELEASED and whose nextAiringAt is *)
(* not before the clock reading of that load; a record of the store, as it *)
(* was before or is after the load, with another status, no status or a    *)
(* past nextAiringAt is in no bucket.                                      *)
C7_OnlyAiringFutureShown ==
    (last.op = "load" /\ ~last.raised)
        => /\ \A d \in DaySet : \A k \in DOMAIN last.sched[d] :
                 \E i \in DOMAIN store :
                    /\ last.sched[d][k] = AnimeObj(store[i])
                    /\ store[i].status \in {"RELEASING", "NOT_YET_RELEASED"}
                    /\ store[i].nextAiringAt >= last.now
           /\ \A i \in DOMAIN last.pre :
                 (last.pre[i].status \notin {"RELEASING", "NOT_YET_RELEASED"}
                    \/ last.pre[i].nextAiringAt < last.now)
                 => ~InSomeBucket(last.sched, last.pre[i].id)

C7_Witness ==
    /\ last.op = "load"
    /\ \E i, j \in DOMAIN store :
          /\ InSomeBucket(last.sched, store[i].id)
          /\ store[j].status = "NOT_YET_RELEASED"
          /\ store[j].nextAiringAt < last.now
          /\ ~InSomeBucket(last.sched, store[j].id)

(* The weekday in Melbourne, counted from Monday 2026-11-02 00:00 local    *)
(* time (1793538000), within one daylight-saving period.                   *)
LocalWeekday(t) == Days[(((t - 1793538000) \div 86400) % 7) + 1]

Ascending(bucket) ==
    \A j, k \in DOMAIN bucket : j < k => bucket[j].airing_time <= bucket[k].airing_time

WrittenAnHourAhead(r) == r.status = "RELEASING" /\ r.nextAiringAt = r.updatedAt + 3600

Shown(sched, r) ==
    \E k \in DOMAIN sched[LocalWeekday(r.nextAiringAt)] :
       LET obj == sched[LocalWeekday(r.nextAiringAt)][k]
       IN obj.id = r.id /\ obj.episode = r.nextEpisode /\ obj.airing_time = r.nextAiringAt

(* C10, as claimed: a record that save_schedule_data wrote with status     *)
(* RELEASING and nextAiringAt one hour after its clock reading is shown by *)
(* a following load whose store calls succeed and whose clock has not      *)
(* passed that time, in the bucket of its local weekday with its episode,  *)
(* and every bucket is in ascending order of airing_time.                  *)
C10_RoundTripAsClaimed ==
    (last.op = "load" /\ last.sweep_fault = "none" /\ ~last.read_fault)
        => /\ \A i \in DOMAIN last.pre :
                 (WrittenAnHourAhead(last.pre[i]) /\ last.now <= last.pre[i].nextAiringAt)
                 => Shown(last.sched, last.pre[i])
           /\ \A d \in DaySet : Ascending(last.sched[d])

(* C10, amended: the same, for a record that the sweep which the load runs *)
(* first has left in the store.                                            *)
C10_RoundTrip ==
    (last.op = "load" /\ ~last.read_fault)
        => /\ \A i \in DOMAIN last.pre :
                 (/\ WrittenAnHourAhead(last.pre[i])
                  /\ last.now <= last.pre[i].nextAiringAt
                  /\ last.pre[i].id \in IdsOf(store))
                 => Shown(last.sched, last.pre[i])
           /\ \A d \in DaySet : Ascending(last.sched[d])

(* Two records written an hour ahead, at different times, land in the      *)
(* Monday bucket; the later one is first in the store.                     *)
C10_Witness ==
    /\ last.op = "load"
    /\ ~last.read_fault
    /\ Len(last.sched["Monday"]) = 2
    /\ \E i, j \in DOMAIN last.pre :
          /\ i < j
          /\ WrittenAnHourAhead(last.pre[i])
          /\ WrittenAnHourAhead(last.pre[j])
          /\ last.pre[i].nextAiringAt > last.pre[j].nextAiringAt
          /\ Shown(last.sched, last.pre[i])
          /\ Shown(last.sched, last.pre[j])

-----------------------------------------------------------------------------
(* save_schedule_data applied once (SpecSave).  The initial states are the *)
(* calls: a store that an earlier save at T0 has written, a payload, the   *)
(* clock reading, AniList's answers and the store failure, if any.  Two    *)
(* families of calls: payloads of every shape against a working store and  *)
(* a failing lookup, and plain payloads against every lookup answer and    *)
(* every store failure.                                                    *)

NotAList == [isList |-> FALSE, items |-> <<>>]

SeqsUpTo(S, n) == UNION {[1..k -> S] : k \in 0..n}

(* The episode of an entry is its place in the payload.                    *)
Numbered(es) == [k \in DOMAIN es |-> [es[k] EXCEPT !.episode = k]]

(* The entries in one day list, or split over two with a value between     *)
(* them that is no list.                                                   *)
Shapes(es) ==
    {<<DayList(es)>>}
      \cup {<<DayList(SubSeq(es, 1, k)), NotAList, DayList(SubSeq(es, k + 1, Len(es)))>> :
               k \in 0..Len(es)}

RawIds == {IntVal(i) : i \in Ids} \cup {NumStr(1), NoneVal}
RawTimes == {IntVal(t) : t \in Times} \cup {NumStr(Time(1)), IsoStr(Time(MaxTick)), NoneVal, TextVal}
ShapeEntries == {Entry(i, a, 0, NoStatus) : i \in RawIds, a \in RawTimes}
ShapePayloads(n) == UNION {Shapes(Numbered(es)) : es \in SeqsUpTo(ShapeEntries, n)}

PlainEntries == {Entry(IntVal(i), IntVal(Time(MaxTick)), 0, st) : i \in Ids, st \in InlineValues}
PlainPayloads(n) == {<<DayList(Numbered(es))>> : es \in SeqsUpTo(PlainEntries, n)}

(* The stores an earlier save has left: one entry per identifier of a      *)
(* list without repetition, status CANCELLED where AniList gave it.        *)
SetupLists == {es \in SeqsUpTo(Ids, MaxId) : \A j, k \in DOMAIN es : j # k => es[j] # es[k]}
SetupPayload(es) ==
    <<DayList([k \in DOMAIN es |-> Entry(IntVal(es[k]), IntVal(Time(MaxTick)), k, NoStatus)])>>
SetupStores ==
    {save_schedule_data(<<>>, SetupPayload(es), T0, <<"ok">>, r, 0).store :
        es \in SetupLists, r \in [Ids -> {NoStatus, "CANCELLED"}]}

SaveFaults == -1..MaxEntries

SaveCall(coll, data, t, a, fault) ==
    [Idle EXCEPT !.op = "input", !.pre = coll, !.data = data, !.now = t, !.oc = a.oc,
                 !.resp = a.resp, !.fault = fault]

(* A failure needs the store call it fails.                                *)
FaultRead(coll, data, t, a, fault) ==
    LET r == save_schedule_data(coll, data, t, a.oc, a.resp, 0)
    IN /\ Unread(a, r.calls)
       /\ fault # 0 => r.ids # <<>>
       /\ fault <= Len(r.ids)

ShapeCalls(n) ==
    {SaveCall(coll, data, t, [oc |-> <<"http">>, resp |-> NoResp], 0) :
        coll \in {c \in SetupStores : Len(c) <= 1}, data \in ShapePayloads(n), t \in Times}

PlainCalls(n) ==
    {SaveCall(c.coll, c.data, Time(1), c.a, c.fault) :
        c \in {x \in [coll : SetupStores, data : PlainPayloads(n), a : Answers, fault : SaveFaults] :
                  FaultRead(x.coll, x.data, Time(1), x.a, x.fault)}}

InitSave ==
    /\ last \in ShapeCalls(MaxEntries) \cup PlainCalls(MaxEntries)
    /\ store = last.pre
    /\ now = T0
    /\ unique_index = TRUE
    /\ requests = NoRequests

ApplySave ==
    /\ OneAtATime
    /\ last.op = "input"
    /\ LET r == save_schedule_data(store, last.data, last.now, last.oc, last.resp, last.fault)
       IN /\ store' = r.store
          /\ now' = last.now
          /\ last' = [last EXCEPT !.op = "save", !.raised = r.raised, !.calls = r.calls,
                                  !.asked = r.asked, !.map = r.map]

NextSave == ApplySave

SpecSave == InitSave /\ [][NextSave]_vars

-----------------------------------------------------------------------------
(* Properties of one save (SpecSave).                                      *)

(* The entries of all day lists of a payload, and those of one identifier  *)
(* whose normalized airing time is not before t.                           *)
EntriesOf(data) ==
    UNION {{data[i].items[j] : j \in DOMAIN data[i].items} :
              i \in {k \in DOMAIN data : data[k].isList}}
NormTime(e) == parse_airing_time(e.airing_time).t
Candidates(data, id, t) ==
    {e \in EntriesOf(data) :
        /\ parse_id(e.id).ok /\ parse_id(e.id).v = id
        /\ parse_airing_time(e.airing_time).ok /\ NormTime(e) >= t}
MinTime(S) == CHOOSE m \in {NormTime(e) : e \in S} : \A e \in S : m <= NormTime(e)
(* The first entry, in payload order, with the minimal time.               *)
Kept(S) ==
    CHOOSE e \in S : /\ NormTime(e) = MinTime(S)
                     /\ \A f \in S : NormTime(f) = MinTime(S) => e.episode <= f.episode

DocSet(coll, id) == {coll[i] : i \in DocsOf(coll, id)}
TheDoc(coll, id) == coll[FirstIndex(coll, id)]
WrittenNow(id) ==
    /\ Cardinality(DocsOf(store, id)) = 1
    /\ TheDoc(store, id).updatedAt = last.now
    /\ TheDoc(store, id).nextAiringAt = MinTime(Candidates(last.data, id, last.now))
Surviving == {id \in Ids : Candidates(last.data, id, last.now) # {}}

(* C3, as claimed: when the store fails one update_one of the upsert loop, *)
(* nothing is raised to the caller and every surviving identifier but the  *)
(* failing one is upserted.                                                *)
C3_UpsertFailureIsolated ==
    (last.op = "save" /\ last.fault >= 1)
        => /\ ~last.raised
           /\ Cardinality({id \in Surviving : ~WrittenNow(id)}) <= 1

(* C4: in a save whose store calls succeed, every identifier with an entry *)
(* whose normalized airing time is not before the clock reading has        *)
(* exactly one record, written by this call, whose nextAiringAt is the     *)
(* least such time over all day lists; the records of an identifier        *)
(* without such an entry are as they were.                                 *)
C4_EarliestFutureAiringWritten ==
    (last.op = "save" /\ last.fault = 0)
        => \A id \in Ids :
              IF Candidates(last.data, id, last.now) # {}
              THEN WrittenNow(id)
              ELSE DocSet(store, id) = DocSet(last.pre, id)

(* Two entries of one identifier in different day lists, the later time    *)
(* first, one of them a string; the clock has moved past T0.               *)
C4_Witness ==
    /\ last.op = "save"
    /\ last.fault = 0
    /\ last.now > T0
    /\ Len(last.data) = 3
    /\ Len(last.data[1].items) = 1
    /\ \E id \in Ids : \E e, f \in Candidates(last.data, id, last.now) :
          /\ e.episode < f.episode
          /\ NormTime(e) > NormTime(f)
          /\ f.airing_time.k = "numstr"
          /\ TheDoc(store, id).nextAiringAt = NormTime(f)
          /\ TheDoc(store, id).nextEpisode = f.episode

StoredBefore(id) == IF DocsOf(last.pre, id) = {} THEN NoStatus ELSE TheDoc(last.pre, id).status

Expected(id) ==
    IF StoredBefore(id) # NoStatus THEN StoredBefore(id)
    ELSE IF MapGet(last.map, id) # NoStatus THEN MapGet(last.map, id)
    ELSE Kept(Candidates(last.data, id, last.now)).status

(* C5: in a save whose store calls succeed, the record of every written    *)
(* identifier has the status stored before if there was one, else the one  *)
(* the lookup returned, else the inline one of the entry kept, else none;  *)
(* and the lookup was asked only about written identifiers that had no     *)
(* stored status, and about nothing when there was none.                   *)
C5_StatusPrecedence ==
    (last.op = "save" /\ last.fault = 0)
        => /\ \A id \in Surviving : TheDoc(store, id).status = Expected(id)
           /\ Range(last.asked) \subseteq {id \in Surviving : StoredBefore(id) = NoStatus}
           /\ DOMAIN last.map \subseteq Range(last.asked)
           /\ last.asked = <<>> => last.calls = 0

C5_Witness ==
    /\ last.op = "save"
    /\ last.fault = 0
    /\ \E a, b \in Surviving :
          /\ StoredBefore(a) = "CANCELLED"
          /\ last.resp[a] = "RELEASING"
          /\ TheDoc(store, a).status = "CANCELLED"
          /\ StoredBefore(b) = NoStatus
          /\ MapGet(last.map, b) = "RELEASING"
          /\ Kept(Candidates(last.data, b, last.now)).status = "NOT_YET_RELEASED"
          /\ TheDoc(store, b).status = "RELEASING"

-----------------------------------------------------------------------------
(* The batched lookups applied once to many identifiers (SpecBatch).  The  *)
(* initial states are the calls: a store of n records, as one save of n    *)
(* entries at T0 leaves it while AniList is unreachable, the outcome of    *)
(* each batch request and AniList's status of each identifier, which runs  *)
(* through RespCycle from a shifted start.                                 *)

BatchIdsUpTo(n) == [k \in 1..n |-> k]
StatusCycle == <<NoStatus, "RELEASING", "FINISHED", "NOT_YET_RELEASED", "CANCELLED">>
RespCycle == <<"FINISHED", NoStatus, "RELEASING", "CANCELLED", "NOT_YET_RELEASED">>
Cycled(cycle, k) == cycle[(k % Len(cycle)) + 1]

MaxBatches == CeilDiv(MaxBatchIds, Min(fetch_batch_size, cleanup_batch_size))

(* The store that save_schedule_data leaves from an empty one for a payload *)
(* of the entries 1..n, each with an inline status of StatusCycle.         *)
BigStore(n) ==
    [k \in 1..n |-> Doc(k, k, Time(k % (MaxTick + 1)), T0, Cycled(StatusCycle, k))]

(* An outcome that no request reads is fixed to "http".                    *)
BatchOutcomes(n) ==
    {oc \in [1..MaxBatches -> Outcomes] :
        \A b \in 1..MaxBatches :
           b > CeilDiv(n, Min(fetch_batch_size, cleanup_batch_size)) => oc[b] = "http"}
BatchResps(n) ==
    IF n = 0 THEN {<<>>}
    ELSE {[k \in 1..n |-> Cycled(RespCycle, k + shift)] : shift \in 1..Len(RespCycle)}

InitBatch ==
    /\ now = T0
    /\ unique_index = TRUE
    /\ requests = NoRequests
    /\ \E n \in 0..MaxBatchIds :
          /\ store = BigStore(n)
          /\ \E oc \in BatchOutcomes(n), resp \in BatchResps(n) :
                last = [Idle EXCEPT !.op = "input", !.now = T0, !.pre = store,
                                    !.asked = BatchIdsUpTo(n), !.oc = oc, !.resp = resp]

ApplyFetch ==
    /\ OneAtATime
    /\ last.op = "input"
    /\ LET r == fetch_status_from_anilist(last.asked, last.oc, last.resp)
       IN last' = [last EXCEPT !.op = "fetch", !.map = r.map, !.calls = r.calls,
                               !.raised = r.raised]
    /\ UNCHANGED <<store, now>>

ApplyCleanup ==
    /\ OneAtATime
    /\ last.op = "input"
    /\ \E f \in SweepFaults :
          LET r == cleanup_finished_anime(store, last.oc, last.resp, f)
          IN /\ Undeleted(f, r.deleting)
             /\ store' = r.store
             /\ last' = [last EXCEPT !.op = "sweep", !.sweep_fault = f, !.ret = r.ret,
                                     !.calls = r.calls]
    /\ UNCHANGED now

NextBatch == ApplyFetch \/ ApplyCleanup

SpecBatch == InitBatch /\ [][NextBatch]_vars

-----------------------------------------------------------------------------
(* Properties of the batched lookups (SpecBatch).                          *)

(* The batch, of 50, that holds the k-th identifier.                       *)
BatchOf(k) == (k + 49) \div 50

(* What AniList told a sweep about the record at place k of the store it   *)
(* started from: NoStatus when the batch failed or the answer left it out. *)
Told(k) ==
    IF last.oc[BatchOf(k)] = "ok" THEN last.resp[last.pre[k].id] ELSE NoStatus

(* C1: after a sweep whose store calls succeed, the store holds no record  *)
(* that AniList reported FINISHED or CANCELLED during the sweep; and after *)
(* any sweep every record that AniList told nothing about (left out of the *)
(* answer, or in a batch that failed) is in the store as it was.           *)
C1_SweepRemovesReportedKeepsUnknown ==
    last.op = "sweep"
        => /\ last.sweep_fault = "none"
                => \A k \in DOMAIN last.pre :
                      Told(k) \in {"FINISHED", "CANCELLED"}
                         => \A j \in DOMAIN store : store[j].id # last.pre[k].id
           /\ \A k \in DOMAIN last.pre :
                 Told(k) = NoStatus => \E j \in DOMAIN store : store[j] = last.pre[k]

(* Three batches, the second failed: a record of the first is reported     *)
(* CANCELLED and gone, one of the second is FINISHED at AniList and kept,  *)
(* one of the third is left out of the answer and kept.                    *)
C1_Witness ==
    /\ last.op = "sweep"
    /\ last.sweep_fault = "none"
    /\ Len(last.pre) > 100
    /\ last.oc = <<"ok", "net", "ok">>
    /\ \E a \in 1..50, b \in 51..100, c \in 101..Len(last.pre) :
          /\ last.resp[a] = "CANCELLED" /\ a \notin IdsOf(store)
          /\ last.resp[b] = "FINISHED" /\ b \in IdsOf(store)
          /\ last.resp[c] = NoStatus /\ c \in IdsOf(store)

(* C8: fetch_status_from_anilist on n identifiers makes at most ceil(n/50) *)
(* requests, none for n = 0, raises nothing, and returns exactly the       *)
(* statuses AniList gave in the batches that succeeded: a failed batch     *)
(* adds nothing and takes nothing away.                                    *)
C8_BatchesIsolated ==
    last.op = "fetch"
        => /\ last.calls * 50 < Len(last.asked) + 50
           /\ Len(last.asked) = 0 => last.calls = 0
           /\ ~last.raised
           /\ \A k \in DOMAIN last.asked :
                 IF last.oc[BatchOf(k)] = "ok" /\ last.resp[last.asked[k]] # NoStatus
                 THEN /\ last.asked[k] \in DOMAIN last.map
                      /\ last.map[last.asked[k]] = last.resp[last.asked[k]]
                 ELSE last.asked[k] \notin DOMAIN last.map
           /\ DOMAIN last.map \subseteq Range(last.asked)

C8_Witness ==
    /\ last.op = "fetch"
    /\ Len(last.asked) > 100
    /\ last.calls = 3
    /\ last.oc = <<"ok", "net", "http">>
    /\ DOMAIN last.map # {}
    /\ \E b \in 51..100 : last.resp[b] # NoStatus

-----------------------------------------------------------------------------
(* The server with requests in progress at once (SpecConc).  A handler is   *)
(* a sequence of store calls; each call is one step, and the steps of the  *)
(* handlers in progress interleave.  The store answers every call.  An     *)
(* upsert that matches a document updates it in one step; one that matches *)
(* none inserts in a later step, and the store refuses the insert of a     *)
(* stored identifier only under the unique index.  create_indexes catches  *)
(* the failure of create_index and the server starts without the index.    *)

MaxClients == 2

Clients == 1..MaxClients
Free == [op |-> "free", pc |-> "", docs |-> <<>>, ids |-> {}]

create_indexes(fails) == ~fails

ConcEntries == {Entry(IntVal(i), IntVal(Time(MaxTick)), 1, NoStatus) : i \in Ids}
ConcPayloads == {<<DayList(es)>> : es \in SeqsUpTo(ConcEntries, MaxEntries) \ {<<>>}}
(* AniList knows an identifier as FINISHED or not at all.                  *)
ConcAnswers == {a \in Answers : \A i \in Ids : a.resp[i] \in {NoStatus, "FINISHED"}}

InitConc ==
    /\ store = <<>>
    /\ now = T0
    /\ last = Idle
    /\ \E fails \in BOOLEAN : unique_index = create_indexes(fails)
    /\ requests = [p \in Clients |-> Free]

(* save_schedule_data up to the upsert loop: the collapse, the find of the *)
(* stored statuses, the lookup and the update documents.                   *)
SaveStart(p) ==
    /\ requests[p] = Free
    /\ \E data \in ConcPayloads, a \in ConcAnswers :
          LET anime_map == Collapse(Flatten(data), now, <<>>)
              ids == [i \in DOMAIN anime_map |-> anime_map[i].id]
              existing == [id \in Range(ids) |-> existing_status(store, id)]
              missing_ids == SelectSeq(ids, LAMBDA i : existing[i] = NoStatus)
              fetched == fetch_status_from_anilist(missing_ids, a.oc, a.resp)
          IN /\ Unread(a, fetched.calls)
             /\ anime_map # <<>>
             /\ requests' = [requests EXCEPT ![p] =
                   [Free EXCEPT !.op = "save", !.pc = "match",
                                !.docs = [i \in DOMAIN anime_map |->
                                             update_doc(anime_map[i], existing, fetched.map, now)]]]
    /\ UNCHANGED <<store, now, last, unique_index>>

(* The rest of the upsert loop after the update of docs[1].                *)
NextUpsert(r) ==
    IF Len(r.docs) = 1 THEN Free ELSE [r EXCEPT !.pc = "match", !.docs = Tail(@)]

(* update_one, the match: a matching document is updated.                  *)
UpsertMatch(p) ==
    /\ requests[p].op = "save"
    /\ requests[p].pc = "match"
    /\ LET upd == Head(requests[p].docs)
       IN IF DocsOf(store, upd.id) # {}
          THEN /\ store' = update_one(store, upd)
               /\ requests' = [requests EXCEPT ![p] = NextUpsert(@)]
          ELSE /\ store' = store
               /\ requests' = [requests EXCEPT ![p].pc = "insert"]
    /\ UNCHANGED <<now, last, unique_index>>

UpsertInsertUnchecked(p) ==
    /\ requests[p].op = "save"
    /\ requests[p].pc = "insert"
    /\ store' = Append(store, Head(requests[p].docs))
    /\ requests' = [requests EXCEPT ![p] = IF Len(@.docs) = 1 THEN Free
                                            ELSE [@ EXCEPT !.pc = "match", !.docs = Tail(@)]]
    /\ UNCHANGED <<now, last, unique_index>>

(* update_one, the insert after no match.  Under the unique index the      *)
(* insert of a stored identifier is a duplicate key: the store runs the    *)
(* upsert again as an update, or DuplicateKeyError leaves the handler.     *)
UpsertInsert(p) ==
    /\ requests[p].op = "save"
    /\ requests[p].pc = "insert"
    /\ LET upd == Head(requests[p].docs)
       IN IF unique_index /\ DocsOf(store, upd.id) # {}
          THEN \/ /\ store' = update_one(store, upd)
                  /\ requests' = [requests EXCEPT ![p] = NextUpsert(@)]
               \/ /\ store' = store
                  /\ requests' = [requests EXCEPT ![p] = Free]
          ELSE /\ store' = Append(store, upd)
               /\ requests' = [requests EXCEPT ![p] = NextUpsert(@)]
    /\ UNCHANGED <<now, last, unique_index>>

(* cleanup_finished_anime up to delete_many, called by the sweep route or  *)
(* as the first step of load_schedule_data.                                *)
SweepStart(p) ==
    /\ requests[p] = Free
    /\ \E op \in {"sweep", "load"}, a \in ConcAnswers :
          LET looked == FinishedLookups(Distinct(store), a.oc, a.resp)
          IN /\ Unread(a, looked.calls)
             /\ requests' = [requests EXCEPT ![p] =
                   IF looked.finished # <<>>
                   THEN [Free EXCEPT !.op = op, !.pc = "delete", !.ids = Range(looked.finished)]
                   ELSE IF op = "load" THEN [Free EXCEPT !.op = op, !.pc = "find"]
                   ELSE Free]
    /\ UNCHANGED <<store, now, last, unique_index>>

SweepDelete(p) ==
    /\ requests[p].pc = "delete"
    /\ store' = delete_many(store, requests[p].ids)
    /\ requests' = [requests EXCEPT ![p] =
                       IF @.op = "load" THEN [Free EXCEPT !.op = "load", !.pc = "find"] ELSE Free]
    /\ UNCHANGED <<now, last, unique_index>>

(* The find of load_schedule_data; the buckets go to the caller.           *)
LoadFind(p) ==
    /\ requests[p].pc = "find"
    /\ DOMAIN LoadTry(store, now, FALSE).sched = DaySet
    /\ requests' = [requests EXCEPT ![p] = Free]
    /\ UNCHANGED <<store, now, last, unique_index>>

(* remove_anime is one store call.                                         *)
RemoveOne(p) ==
    /\ requests[p] = Free
    /\ \E id \in Ids : store' = remove_anime(store, id, FALSE).store
    /\ UNCHANGED <<now, last, unique_index, requests>>

NextConc ==
    \E p \in Clients :
       \/ SaveStart(p)
       \/ UpsertMatch(p)
       \/ UpsertInsert(p)
       \/ SweepStart(p)
       \/ SweepDelete(p)
       \/ LoadFind(p)
       \/ RemoveOne(p)

SpecConc == InitConc /\ [][NextConc]_vars

-----------------------------------------------------------------------------
(* Properties of the concurrent server (SpecConc).                         *)

AtMostOnePerId(coll) == \A id \in IdsOf(coll) : Cardinality(DocsOf(coll, id)) <= 1

(* Two saves in progress have both found no document of an identifier and *)
(* one of them has inserted it.                                            *)
Raced(p) ==
    /\ requests[p].op = "save"
    /\ requests[p].pc = "insert"
    /\ Head(requests[p].docs).id \in IdsOf(store)

OnePerIdWithoutIndex == AtMostOnePerId(store)

-----------------------------------------------------------------------------
(* save_schedule_data applied to a store that an earlier save has written  *)
(* (SpecAgain).  The initial states are the calls: a store with one record *)
(* per identifier of a list, each with an airing time of its own, written  *)
(* at T0 while AniList was unreachable; a payload of one day list; the     *)
(* clock reading.  Two families of calls: payloads of one entry against    *)
(* every such store, and payloads of every length against the stores of at *)
(* most one record.  The store answers every call, AniList none.           *)

EarlierPayload(es, at) ==
    <<DayList([k \in DOMAIN es |-> Entry(IntVal(es[k]), IntVal(at[es[k]]), 0, NoStatus)])>>
EarlierStores ==
    {save_schedule_data(<<>>, EarlierPayload(es, at), T0, <<"http">>, NoResp, 0).store :
        es \in SetupLists, at \in [Ids -> Times]}

AgainEntries == {Entry(IntVal(i), IntVal(t), 0, NoStatus) : i \in Ids, t \in Times}
AgainPayloads(n) == {<<DayList(Numbered(es))>> : es \in SeqsUpTo(AgainEntries, n)}
AgainCalls(stores, n) ==
    {SaveCall(coll, data, t, [oc |-> <<"http">>, resp |-> NoResp], 0) :
        coll \in stores, data \in AgainPayloads(n), t \in Times}

InitAgain ==
    /\ last \in AgainCalls(EarlierStores, 1)
                   \cup AgainCalls({c \in EarlierStores : Len(c) <= 1}, MaxEntries)
    /\ store = last.pre
    /\ now = T0
    /\ unique_index = TRUE
    /\ requests = NoRequests

SpecAgain == InitAgain /\ [][NextSave]_vars

-----------------------------------------------------------------------------
(* Properties of a save over an earlier one (SpecAgain).                   *)

(* The record the same call writes for id into an empty store.             *)
FromPayloadAlone(id) ==
    TheDoc(save_schedule_data(<<>>, last.data, last.now, last.oc, last.resp, 0).store, id)

(* C11: the nextAiringAt and nextEpisode that a save leaves for an         *)
(* identifier it writes are those computed from its payload alone,         *)
(* whatever was stored: where the stored nextAiringAt is earlier than      *)
(* every time the payload gives for the identifier, and still not before   *)
(* the clock reading, the save replaces it by the least of the payload's   *)
(* times, a later one.                                                     *)
C11_PayloadAloneOverwrites ==
    last.op = "save"
        => \A id \in Surviving :
              /\ TheDoc(store, id).nextAiringAt = FromPayloadAlone(id).nextAiringAt
              /\ TheDoc(store, id).nextEpisode = FromPayloadAlone(id).nextEpisode
              /\ TheDoc(store, id).nextAiringAt = MinTime(Candidates(last.data, id, last.now))
              /\ (id \in IdsOf(last.pre)
                    /\ TheDoc(last.pre, id).nextAiringAt < MinTime(Candidates(last.data, id, last.now)))
                 => TheDoc(store, id).nextAiringAt > TheDoc(last.pre, id).nextAiringAt

(* The payload holds two entries, both of one stored identifier and both   *)
(* later than its stored time, which the clock has not passed; the store   *)
(* now holds the earlier of the two.                                       *)
C11_Witness ==
    /\ last.op = "save"
    /\ \E id \in IdsOf(last.pre) :
          LET t1 == TheDoc(last.pre, id).nextAiringAt
              mine == Candidates(last.data, id, last.now)
          IN /\ last.now <= t1
             /\ Cardinality(EntriesOf(last.data)) = 2
             /\ mine = EntriesOf(last.data)
             /\ \A e \in mine : NormTime(e) > t1
             /\ \E e, f \in mine : NormTime(e) < NormTime(f)
             /\ Cardinality(DocsOf(store, id)) = 1
             /\ TheDoc(store, id).nextAiringAt = MinTime(mine)
             /\ TheDoc(store, id).nextAiringAt > t1

=============================================================================
